---- MODULE Spec2Model ----
(***************************************************************************)
(* Connected-component labelling (regionlabelling.rs).                     *)
(*                                                                         *)
(* One call of connected_components(image, conn, background) is modelled   *)
(* as a state machine: the set-up, one step per pixel of the first pass    *)
(* (provisional labels and unions), the set-up of the second pass, one     *)
(* step per pixel of the second pass (compaction), and the return.         *)
(* Images are flat row-major buffers, as ImageBuffer stores them.          *)
(***************************************************************************)
EXTENDS Integers, Sequences, FiniteSets

\* Bounds of the model ---------------------------------------------------
MaxSide == 3        \* width and height range over 0..MaxSide
MaxArea == 6        \* width * height <= MaxArea
MaxPixel == 1       \* pixel values of the image range over 0..MaxPixel

\* Program constants -----------------------------------------------------
White == 255        \* Luma::white(), a background no pixel of the image has

Pixels == 0..MaxPixel
Backgrounds == Pixels \cup {White}
Connectivity == {"Four", "Eight"}

VARIABLES
    width, height, image, conn, background,   \* the arguments of the call
    pc,                                       \* position in the function
    x, y,                                     \* loop variables
    out,                                      \* the label / output buffer
    has_forest, forest,                       \* the disjoint-set forest
    adj_labels, num_adj, next_label,          \* pass 1 locals
    output_labels, count,                     \* pass 2 locals
    at, accessed,                             \* pixel of the last step, grid accesses it made
    forest_ids, table_ids,                    \* ids handed to the forest / table in the last step
    repeated, prev, prev_conn                 \* caller: result of an earlier call on the same image

inputs == <<width, height, image, background>>
locals == <<x, y, out, has_forest, forest, adj_labels, num_adj, next_label,
            output_labels, count, at, accessed, forest_ids, table_ids>>
caller == <<repeated, prev, prev_conn>>
vars == <<inputs, conn, pc, locals, caller>>

\* Image buffers ----------------------------------------------------------
Zeros(n) == [i \in 0..(n - 1) |-> 0]

ImageBufferNew(w, h) == [width |-> w, height |-> h, data |-> Zeros(w * h)]

NoBuffer == [width |-> 0, height |-> 0, data |-> Zeros(0)]

image_size == width * height

Idx(px, py) == py * width + px

\* Unchecked accessors: they index the flat buffer without looking at the
\* coordinates.  An index outside the buffer is undefined; InBoundsAccesses
\* below establishes that the function never produces one.
unsafe_get_pixel(buf, px, py) ==
    IF Idx(px, py) \in DOMAIN buf THEN buf[Idx(px, py)] ELSE 0

unsafe_put_pixel(buf, px, py, v) ==
    IF Idx(px, py) \in DOMAIN buf THEN [buf EXCEPT ![Idx(px, py)] = v] ELSE buf

Access(grid, px, py) == [grid |-> grid, x |-> px, y |-> py]

\* Disjoint-set forest ----------------------------------------------------
\* new(n): n singleton classes 0..n-1, each its own representative.
ForestNew(n) == [i \in 0..(n - 1) |-> i]

InUniverse(f, a) == a \in DOMAIN f

RECURSIVE ForestRoot(_, _)
ForestRoot(f, a) == IF f[a] = a THEN a ELSE ForestRoot(f, f[a])

\* union(a, b): merges the classes of a and b; which of the two roots
\* becomes the representative is the forest's own business (pick).
ForestUnion(f, a, b, pick) ==
    LET ra == ForestRoot(f, a)
        rb == ForestRoot(f, b)
    IN  IF ra = rb THEN f
        ELSE IF pick THEN [f EXCEPT ![ra] = rb]
        ELSE [f EXCEPT ![rb] = ra]

\* Pass 1: causal scan ----------------------------------------------------
\* Mutant: the early return taken only when both dimensions are zero.
IsEmptyImageBoth(w, h) == w = 0 /\ h = 0

IsEmptyImage(w, h) == w = 0 \/ h = 0

\* Mutant: black taken for the background whatever the caller passed.
IsBackgroundBlack(p) == p = 0

IsBackground(p) == p = background

\* Mutant: any foreground neighbour taken for a merge candidate.
IsMergeCandidateAnyForeground(pixel, current) == pixel # background

IsMergeCandidate(pixel, current) == pixel = current

HasWest(px) == px > 0

HasNorth(py) == py > 0

\* Mutant: the North East guard off by one.
HasNorthEastOffByOne(px) == px < width

HasNorthEast(px) == px < width - 1

\* Mutant: the diagonal neighbours examined under the wrong connectivity.
DiagonalsExaminedSwapped(c) == c = "Four"

DiagonalsExamined(c) == c = "Eight"

\* The neighbours of (px, py) the code reads, in the order it reads them:
\* West, North, North West, North East.
Examined(px, py) ==
    (IF HasWest(px) THEN << <<px - 1, py>> >> ELSE << >>)
    \o (IF HasNorth(py) THEN << <<px, py - 1>> >> ELSE << >>)
    \o (IF HasNorth(py) /\ DiagonalsExamined(conn) /\ HasWest(px)
        THEN << <<px - 1, py - 1>> >> ELSE << >>)
    \o (IF HasNorth(py) /\ DiagonalsExamined(conn) /\ HasNorthEast(px)
        THEN << <<px + 1, py - 1>> >> ELSE << >>)

RECURSIVE Filter(_, _)
Filter(nbs, current) ==
    IF nbs = << >> THEN << >>
    ELSE LET nb == Head(nbs)
         IN  (IF IsMergeCandidate(unsafe_get_pixel(image, nb[1], nb[2]), current)
              THEN << nb >> ELSE << >>) \o Filter(Tail(nbs), current)

\* The examined neighbours whose pixel equals the current one.
Candidates(px, py) == Filter(Examined(px, py), unsafe_get_pixel(image, px, py))

\* Their labels, as written to adj_labels[0 .. num_adj - 1].
CandidateLabels(px, py) ==
    LET c == Candidates(px, py)
    IN  [k \in 1..Len(c) |-> unsafe_get_pixel(out.data, c[k][1], c[k][2])]

Min2(a, b) == IF a < b THEN a ELSE b

\* min_label over adj_labels[0 .. num_adj - 1], num_adj >= 1.  The code
\* starts the fold at u32::max_value(), the identity of min over u32, so
\* the result is the least of the labels.
RECURSIVE MinLabel(_)
MinLabel(labels) ==
    IF Len(labels) = 1 THEN Head(labels)
    ELSE Min2(MinLabel(Tail(labels)), Head(labels))

\* for n in 0..num_adj { forest.union(min_label, adj_labels[n]) }
RECURSIVE UnionAll(_, _, _, _)
UnionAll(f, m, labels, picks) ==
    IF labels = << >> THEN f
    ELSE UnionAll(ForestUnion(f, m, Head(labels), Head(picks)), m,
                  Tail(labels), Tail(picks))

\* The position after (px, py) in row-major order.
NextX(px) == IF px + 1 < width THEN px + 1 ELSE 0

NextY(px, py) == IF px + 1 < width THEN py ELSE py + 1

Pass1Accesses(px, py) ==
    {Access("image", px, py)}
    \cup {Access("image", Examined(px, py)[k][1], Examined(px, py)[k][2]) :
            k \in 1..Len(Examined(px, py))}
    \cup {Access("out", Candidates(px, py)[k][1], Candidates(px, py)[k][2]) :
            k \in 1..Len(Candidates(px, py))}

\* Pass 2: compaction -----------------------------------------------------
\* The final id of a root: the one the table holds, or count for a root
\* met for the first time.
\* Mutant: the root itself used as the final id of a new root.
OutputLabelForRoot(table, root, cnt) == IF table[root] < 1 THEN root ELSE table[root]

OutputLabelFor(table, root, cnt) == IF table[root] < 1 THEN cnt ELSE table[root]

\* Mutant: count incremented for every foreground pixel.
NewCountAlways(table, root, cnt) == cnt + 1

NewCount(table, root, cnt) == IF table[root] < 1 THEN cnt + 1 ELSE cnt

\* Mutant: count started one too high.
FirstOutputLabelLate == 1 + 1

\* let mut count = 1;
FirstOutputLabel == 1

\* The call -----------------------------------------------------------------
Init ==
    /\ width \in 0..MaxSide
    /\ height \in 0..MaxSide
    /\ width * height <= MaxArea
    /\ image \in [0..(width * height - 1) -> Pixels]
    /\ conn \in Connectivity
    /\ background \in Backgrounds
    /\ pc = "start"
    /\ x = 0
    /\ y = 0
    /\ out = NoBuffer
    /\ has_forest = FALSE
    /\ forest = ForestNew(0)
    /\ adj_labels = [k \in 0..3 |-> 0]
    /\ num_adj = 0
    /\ next_label = 0
    /\ output_labels = Zeros(0)
    /\ count = 0
    /\ at = <<0, 0>>
    /\ accessed = {}
    /\ forest_ids = {}
    /\ table_ids = {}
    /\ repeated = FALSE
    /\ prev = NoBuffer
    /\ prev_conn = conn

\* if width == 0 || height == 0 { return out; }
ReturnEmpty ==
    /\ pc = "start"
    /\ IsEmptyImage(width, height)
    /\ out' = ImageBufferNew(width, height)
    /\ pc' = "done"
    /\ UNCHANGED <<inputs, conn, caller, x, y, has_forest, forest, adj_labels,
                   num_adj, next_label, output_labels, count, at, accessed,
                   forest_ids, table_ids>>

Setup ==
    /\ pc = "start"
    /\ ~IsEmptyImage(width, height)
    /\ out' = ImageBufferNew(width, height)
    /\ has_forest' = TRUE
    /\ forest' = ForestNew(image_size)
    /\ adj_labels' = [k \in 0..3 |-> 0]
    /\ next_label' = 1
    /\ x' = 0
    /\ y' = 0
    /\ pc' = "pass1"
    /\ UNCHANGED <<inputs, conn, caller, num_adj, output_labels, count, at,
                   accessed, forest_ids, table_ids>>

\* A background pixel of pass 1: continue.
ScanBackground ==
    /\ pc = "pass1"
    /\ y < height
    /\ IsBackground(unsafe_get_pixel(image, x, y))
    /\ at' = <<x, y>>
    /\ accessed' = {Access("image", x, y)}
    /\ forest_ids' = {}
    /\ x' = NextX(x)
    /\ y' = NextY(x, y)
    /\ UNCHANGED <<inputs, conn, caller, pc, out, has_forest, forest, adj_labels,
                   num_adj, next_label, output_labels, count, table_ids>>

\* A foreground pixel with no merge candidate: a new provisional label.
ScanNewLabel ==
    /\ pc = "pass1"
    /\ y < height
    /\ ~IsBackground(unsafe_get_pixel(image, x, y))
    /\ Candidates(x, y) = << >>
    /\ num_adj' = 0
    /\ out' = [out EXCEPT !.data = unsafe_put_pixel(out.data, x, y, next_label)]
    /\ next_label' = next_label + 1
    /\ at' = <<x, y>>
    /\ accessed' = Pass1Accesses(x, y) \cup {Access("out", x, y)}
    /\ forest_ids' = {}
    /\ x' = NextX(x)
    /\ y' = NextY(x, y)
    /\ UNCHANGED <<inputs, conn, caller, pc, has_forest, forest, adj_labels,
                   output_labels, count, table_ids>>

\* A foreground pixel with merge candidates: the least of their labels, and
\* the union of all of them.
ScanMerge ==
    /\ pc = "pass1"
    /\ y < height
    /\ ~IsBackground(unsafe_get_pixel(image, x, y))
    /\ Candidates(x, y) # << >>
    /\ LET labels == CandidateLabels(x, y)
           n == Len(labels)
           min_label == MinLabel(labels)
           ids == {min_label} \cup {labels[k] : k \in 1..n}
       IN  /\ num_adj' = n
           /\ adj_labels' = [k \in 0..3 |-> IF k < n THEN labels[k + 1]
                                            ELSE adj_labels[k]]
           /\ out' = [out EXCEPT !.data = unsafe_put_pixel(out.data, x, y, min_label)]
           /\ forest_ids' = ids
           /\ IF \A a \in ids : InUniverse(forest, a)
              THEN /\ \E picks \in [1..n -> BOOLEAN] :
                        forest' = UnionAll(forest, min_label, labels, picks)
                   /\ pc' = "pass1"
              ELSE /\ forest' = forest
                   /\ pc' = "panic"
    /\ at' = <<x, y>>
    /\ accessed' = Pass1Accesses(x, y) \cup {Access("out", x, y)}
    /\ x' = NextX(x)
    /\ y' = NextY(x, y)
    /\ UNCHANGED <<inputs, conn, caller, has_forest, next_label, output_labels,
                   count, table_ids>>

\* let mut output_labels = vec![0u32; image_size]; let mut count = 1;
StartCompaction ==
    /\ pc = "pass1"
    /\ y >= height
    /\ output_labels' = Zeros(image_size)
    /\ count' = FirstOutputLabel
    /\ x' = 0
    /\ y' = 0
    /\ pc' = "pass2"
    /\ UNCHANGED <<inputs, conn, caller, out, has_forest, forest, adj_labels,
                   num_adj, next_label, at, accessed, forest_ids, table_ids>>

\* A background pixel of pass 2: continue.
CompactBackground ==
    /\ pc = "pass2"
    /\ y < height
    /\ IsBackground(unsafe_get_pixel(image, x, y))
    /\ at' = <<x, y>>
    /\ accessed' = {Access("image", x, y)}
    /\ forest_ids' = {}
    /\ table_ids' = {}
    /\ x' = NextX(x)
    /\ y' = NextY(x, y)
    /\ UNCHANGED <<inputs, conn, caller, pc, out, has_forest, forest, adj_labels,
                   num_adj, next_label, output_labels, count>>

\* A foreground pixel of pass 2: the final id of the root of its label.
CompactPixel ==
    /\ pc = "pass2"
    /\ y < height
    /\ ~IsBackground(unsafe_get_pixel(image, x, y))
    /\ LET label == unsafe_get_pixel(out.data, x, y)
       IN  /\ InUniverse(forest, label)
           /\ LET root == ForestRoot(forest, label)
                  output_label == OutputLabelFor(output_labels, root, count)
              IN  /\ count' = NewCount(output_labels, root, count)
                  /\ output_labels' = [output_labels EXCEPT ![root] = output_label]
                  /\ out' = [out EXCEPT
                               !.data = unsafe_put_pixel(out.data, x, y, output_label)]
                  /\ table_ids' = {root}
           /\ forest_ids' = {label}
    /\ at' = <<x, y>>
    /\ accessed' = {Access("image", x, y), Access("out", x, y)}
    /\ x' = NextX(x)
    /\ y' = NextY(x, y)
    /\ UNCHANGED <<inputs, conn, caller, pc, has_forest, forest, adj_labels,
                   num_adj, next_label>>

\* forest.root(label) for a label that is none of the forest's ids 0..n-1:
\* the forest has no class for it and the call does not return.
CompactAbort ==
    /\ pc = "pass2"
    /\ y < height
    /\ ~IsBackground(unsafe_get_pixel(image, x, y))
    /\ ~InUniverse(forest, unsafe_get_pixel(out.data, x, y))
    /\ forest_ids' = {unsafe_get_pixel(out.data, x, y)}
    /\ table_ids' = {}
    /\ at' = <<x, y>>
    /\ accessed' = {Access("image", x, y), Access("out", x, y)}
    /\ pc' = "panic"
    /\ UNCHANGED <<inputs, conn, caller, x, y, out, has_forest, forest,
                   adj_labels, num_adj, next_label, output_labels, count>>

Return ==
    /\ pc = "pass2"
    /\ y >= height
    /\ pc' = "done"
    /\ UNCHANGED <<inputs, conn, caller, locals>>

\* The caller labels the same image again, with connectivity c, keeping the
\* grid the first call returned.
CallAgain(c) ==
    /\ pc = "done"
    /\ ~repeated
    /\ repeated' = TRUE
    /\ prev' = out
    /\ prev_conn' = conn
    /\ conn' = c
    /\ pc' = "start"
    /\ x' = 0
    /\ y' = 0
    /\ out' = NoBuffer
    /\ has_forest' = FALSE
    /\ forest' = ForestNew(0)
    /\ adj_labels' = [k \in 0..3 |-> 0]
    /\ num_adj' = 0
    /\ next_label' = 0
    /\ output_labels' = Zeros(0)
    /\ count' = 0
    /\ at' = <<0, 0>>
    /\ accessed' = {}
    /\ forest_ids' = {}
    /\ table_ids' = {}
    /\ UNCHANGED inputs

Next ==
    \/ ReturnEmpty
    \/ Setup
    \/ ScanBackground
    \/ ScanNewLabel
    \/ ScanMerge
    \/ StartCompaction
    \/ CompactBackground
    \/ CompactPixel
    \/ CompactAbort
    \/ Return

Spec == Init /\ [][Next]_vars

NextTwice ==
    \/ Next
    \/ \E c \in Connectivity : CallAgain(c)

SpecTwice == Init /\ [][NextTwice]_vars

\* ==========================================================================
\* Properties
\* ==========================================================================

\* What the properties are stated in: pixels as indices of the flat buffer,
\* adjacency under a connectivity, and the components of the foreground.
Positions == 0..(width * height - 1)

XOf(i) == i % width

YOf(i) == i \div width

Foreground == {i \in Positions : image[i] # background}

Abs(a) == IF a < 0 THEN -a ELSE a

Adjacent(i, j, c) ==
    LET dx == Abs(XOf(i) - XOf(j))
        dy == Abs(YOf(i) - YOf(j))
    IN  IF c = "Four" THEN dx + dy = 1
        ELSE dx <= 1 /\ dy <= 1 /\ dx + dy > 0

Linked(i, j, c) == Adjacent(i, j, c) /\ image[i] = image[j]

RECURSIVE Grow(_, _)
Grow(S, c) ==
    LET T == S \cup {j \in Foreground : \E i \in S : Linked(i, j, c)}
    IN  IF T = S THEN S ELSE Grow(T, c)

\* The pixels a path of adjacent, equal-valued pixels joins to i.
Region(i, c) == Grow({i}, c)

Components(c) == {Region(i, c) : i \in Foreground}

Returned == pc = "done"

Label(i) == out.data[i]

LabelsOf(buf) == {buf.data[i] : i \in DOMAIN buf.data}

MaxOf(S) == IF S = {} THEN 0 ELSE CHOOSE m \in S : \A n \in S : n <= m

\* C1: in a returned grid two foreground pixels carry the same label if and
\* only if a path of adjacent (under conn), equal-valued pixels joins them.
SameLabelIffConnected ==
    Returned =>
        \A p \in Foreground : \A q \in Foreground :
            (Label(p) = Label(q)) <=> (q \in Region(p, conn))

\* A returned grid with two touching foreground pixels of different values
\* (labelled apart) and two joined pixels that do not touch (labelled alike).
SameLabelIffConnectedWitness ==
    /\ Returned
    /\ \E p \in Foreground : \E q \in Foreground :
          Adjacent(p, q, conn) /\ image[p] # image[q] /\ Label(p) # Label(q)
    /\ \E p \in Foreground : \E q \in Foreground :
          /\ p # q
          /\ ~Adjacent(p, q, conn)
          /\ q \in Region(p, conn)
          /\ Label(p) = Label(q)

\* C2: a pixel of a returned grid is 0 if and only if the input pixel
\* equals the background value given; every foreground pixel is >= 1.
ZeroIffBackground ==
    Returned =>
        \A i \in Positions :
            /\ (Label(i) = 0) <=> (image[i] = background)
            /\ image[i] # background => Label(i) >= 1

\* A returned grid for a background other than 0, with pixels on both sides.
ZeroIffBackgroundWitness ==
    /\ Returned
    /\ background # 0
    /\ \E i \in Positions : image[i] = background /\ Label(i) = 0
    /\ \E i \in Positions : image[i] = 0 /\ Label(i) >= 1

\* C3: the non-zero values of a returned grid are exactly 1..K, K the
\* number of connected components under conn.
DenseLabels ==
    Returned =>
        {Label(i) : i \in Foreground} = 1..Cardinality(Components(conn))

\* A returned grid of several components for which pass 1 handed out more
\* provisional labels than there are components.
DenseLabelsWitness ==
    /\ Returned
    /\ Cardinality(Components(conn)) >= 2
    /\ next_label - 1 > Cardinality(Components(conn))

\* C5: final ids appear in row-major order of discovery: every foreground
\* pixel carries an id seen before it or the largest id before it plus one
\* (so the first foreground pixel carries 1), and label j first appears
\* before label k whenever j < k.
DiscoveryOrder ==
    Returned =>
        /\ \A i \in Foreground :
              /\ Label(i) >= 1
              /\ Label(i) <= 1 + MaxOf({Label(j) : j \in {k \in Foreground : k < i}})
        /\ \A i \in Foreground : \A j \in Foreground :
              Label(i) < Label(j) =>
                  \E k \in Foreground : k < j /\ Label(k) = Label(i)

\* A returned grid in which id 1 is used again after id 2 was handed out.
DiscoveryOrderWitness ==
    /\ Returned
    /\ \E i \in Foreground : \E j \in Foreground : \E k \in Foreground :
          i < j /\ j < k /\ Label(i) = 1 /\ Label(j) = 2 /\ Label(k) = 1

\* C8: for width = 0 or height = 0 the call goes from its start straight to
\* its return: no forest is created, no pixel is visited, and the grid
\* returned has the width and height of the input.
EmptyImageReturnsAtOnce ==
    (width = 0 \/ height = 0) =>
        /\ pc \in {"start", "done"}
        /\ ~has_forest
        /\ accessed = {}
        /\ Returned =>
              out.width = width /\ out.height = height /\ DOMAIN out.data = {}

\* The call has returned for an image of no width and some height.
EmptyImageReturnsAtOnceWitness ==
    Returned /\ width = 0 /\ height > 0 /\ out.height = height

\* C10: every access of the image or of the label grid is at coordinates
\* inside the grid; the neighbours read are West, North and (under Eight
\* only) North West and North East, each visited before the current pixel.
InBoundsAccesses ==
    \A a \in accessed :
        /\ 0 <= a.x /\ a.x < width
        /\ 0 <= a.y /\ a.y < height
        /\ <<a.x - at[1], a.y - at[2]>>
              \in {<<0, 0>>, <<-1, 0>>, <<0, -1>>, <<-1, -1>>, <<1, -1>>}
        /\ a.y # at[2] /\ a.x # at[1] => conn = "Eight"
        /\ <<a.x, a.y>> # at => a.y * width + a.x < at[2] * width + at[1]

\* A pass 1 step under Eight that read North East in the last column, and
\* North West as well.
InBoundsAccessesWitness ==
    /\ pc = "pass1"
    /\ conn = "Eight"
    /\ at[1] + 1 = width - 1
    /\ Access("image", at[1] + 1, at[2] - 1) \in accessed
    /\ Access("out", at[1] + 1, at[2] - 1) \in accessed
    /\ Access("image", at[1] - 1, at[2] - 1) \in accessed

\* C4: the call never aborts.
NeverAborts == pc # "panic"

\* C9: every id handed to the forest, and every index of the root -> final
\* id table, is one of the forest's ids 0 .. width * height - 1.
ForestIdsInUniverse ==
    has_forest =>
        (forest_ids \cup table_ids) \subseteq 0..(width * height - 1)

\* C6: labelling the same image again with the same connectivity, whatever
\* representatives the two forests pick, returns the same grid.
SameGridAgain ==
    (Returned /\ repeated /\ prev_conn = conn) => out = prev

\* A second call has returned, from a forest in which some class is
\* represented by another id than its least.
SameGridAgainWitness ==
    /\ Returned
    /\ repeated
    /\ prev_conn = conn
    /\ \E a \in DOMAIN forest : forest[a] > a
    /\ out = prev

\* C7: Eight yields no more components than Four on the same image and
\* background, and pixels labelled alike under Four are labelled alike
\* under Eight.
EightCoarserThanFour ==
    (Returned /\ repeated /\ prev_conn = "Four" /\ conn = "Eight") =>
        /\ MaxOf(LabelsOf(out)) <= MaxOf(LabelsOf(prev))
        /\ \A p \in Foreground : \A q \in Foreground :
              prev.data[p] = prev.data[q] => out.data[p] = out.data[q]

\* Eight has returned after Four with strictly fewer components.
EightCoarserThanFourWitness ==
    /\ Returned
    /\ repeated
    /\ prev_conn = "Four"
    /\ conn = "Eight"
    /\ MaxOf(LabelsOf(out)) < MaxOf(LabelsOf(prev))
    /\ MaxOf(LabelsOf(out)) >= 2

====
